---- MODULE Spec2Model ----
(***************************************************************************)
(* archive_backups.py: relocation of aged backup objects from a source     *)
(* bucket to a target bucket, one thread-pool task per server of a backup  *)
(* group, groups processed one after another by main().                    *)
(*                                                                         *)
(* Strings are sequences of one-character strings, so that startswith,     *)
(* endswith, str.replace, os.path.basename, str.split and strptime are     *)
(* computed character by character as Python computes them.                *)
(***************************************************************************)
EXTENDS Integers, Sequences, FiniteSets, TLC

\* Python's None where a datetime is expected: year 0 is no datetime (MINYEAR is 1),
\* so the value is distinct from every date strptime returns.
None == [year |-> 0, month |-> 0, day |-> 0]

\* A strptime directive that does not match its token.
NoMatch == 0 - 1

\* The ValueError strptime raises, as the outcome of the call: distinct from None
\* and from every date.
ValueError == [year |-> NoMatch, month |-> 0, day |-> 0]

(***************************************************************************)
(* Python string primitives used by the program                            *)
(***************************************************************************)

\* str.startswith(p); also the prefix match of Bucket.list_blobs(prefix=p).
startswith(s, p) == Len(p) <= Len(s) /\ SubSeq(s, 1, Len(p)) = p

\* str.endswith(p)
endswith(s, p) == Len(p) <= Len(s) /\ SubSeq(s, Len(s) - Len(p) + 1, Len(s)) = p

\* str.replace(old, new): every non-overlapping occurrence, left to right.
RECURSIVE replace(_, _, _)
replace(s, old, new) ==
    IF old = <<>>
    THEN new \o (IF s = <<>> THEN <<>> ELSE <<Head(s)>> \o replace(Tail(s), old, new))
    ELSE IF s = <<>> THEN <<>>
    ELSE IF startswith(s, old)
         THEN new \o replace(SubSeq(s, Len(old) + 1, Len(s)), old, new)
         ELSE <<Head(s)>> \o replace(Tail(s), old, new)

\* os.path.basename(p): what follows the last "/".
basename(p) ==
    LET slashes == {i \in 1..Len(p) : p[i] = "/"}
    IN  IF slashes = {} THEN p
        ELSE SubSeq(p, (CHOOSE i \in slashes : \A j \in slashes : j <= i) + 1, Len(p))

\* str.split(sep)[0]: what precedes the first separator (the whole string if none).
split_first(s, sep) ==
    LET hits == {i \in 1..Len(s) : s[i] = sep}
    IN  IF hits = {} THEN s
        ELSE SubSeq(s, 1, (CHOOSE i \in hits : \A j \in hits : i <= j) - 1)

\* The characters the object keys are written in, in ASCII order.
Ascii ==
    <<" ", "-", ".", "/", "0", "1", "2", "3", "4", "5", "6", "7", "8", "9", "_",
      "a", "b", "c", "d", "e", "f", "g", "h", "i", "j", "k", "l", "m", "n", "o",
      "p", "q", "r", "s", "t", "u", "v", "w", "x", "y", "z">>

Code(c) == CHOOSE i \in 1..Len(Ascii) : Ascii[i] = c

\* Lexicographic order of object names, the order list_blobs returns them in.
RECURSIVE NameLess(_, _)
NameLess(a, b) ==
    IF b = <<>> THEN FALSE
    ELSE IF a = <<>> THEN TRUE
    ELSE IF Head(a) = Head(b) THEN NameLess(Tail(a), Tail(b))
    ELSE Code(Head(a)) < Code(Head(b))

(***************************************************************************)
(* datetime                                                                *)
(***************************************************************************)

Digits == {"0", "1", "2", "3", "4", "5", "6", "7", "8", "9"}

DigitVal(c) == Code(c) - Code("0")

IsLeap(y) == (y % 4 = 0) /\ ((y % 100 # 0) \/ (y % 400 = 0))

DaysInMonth(y, m) ==
    IF m = 2 THEN (IF IsLeap(y) THEN 29 ELSE 28)
    ELSE IF m \in {4, 6, 9, 11} THEN 30 ELSE 31

RECURSIVE DaysBeforeMonth(_, _)
DaysBeforeMonth(y, m) ==
    IF m = 1 THEN 0 ELSE DaysBeforeMonth(y, m - 1) + DaysInMonth(y, m - 1)

\* date.toordinal(): 0001-01-01 is day 1.
toordinal(d) ==
    LET y == d.year - 1
    IN  y * 365 + (y \div 4) - (y \div 100) + (y \div 400)
        + DaysBeforeMonth(d.year, d.month) + d.day

\* The directives of '%Y-%m-%d' as strptime's regular expressions read them:
\* %Y is \d\d\d\d, %m is 1[0-2]|0[1-9]|[1-9], %d is 3[01]|[12]\d|0[1-9]|[1-9]| [1-9].
\* Each yields the number read, or NoMatch when the token does not match.
Directive_Y(t) ==
    IF Len(t) = 4 /\ \A i \in 1..4 : t[i] \in Digits
    THEN DigitVal(t[1]) * 1000 + DigitVal(t[2]) * 100 + DigitVal(t[3]) * 10 + DigitVal(t[4])
    ELSE NoMatch

Directive_m(t) ==
    IF Len(t) = 2 /\ t[1] = "1" /\ t[2] \in {"0", "1", "2"} THEN 10 + DigitVal(t[2])
    ELSE IF Len(t) = 2 /\ t[1] = "0" /\ t[2] \in Digits \ {"0"} THEN DigitVal(t[2])
    ELSE IF Len(t) = 1 /\ t[1] \in Digits \ {"0"} THEN DigitVal(t[1])
    ELSE NoMatch

Directive_d(t) ==
    IF Len(t) = 2 /\ t[1] = "3" /\ t[2] \in {"0", "1"} THEN 30 + DigitVal(t[2])
    ELSE IF Len(t) = 2 /\ t[1] \in {"1", "2"} /\ t[2] \in Digits
         THEN DigitVal(t[1]) * 10 + DigitVal(t[2])
    ELSE IF Len(t) = 2 /\ t[1] \in {"0", " "} /\ t[2] \in Digits \ {"0"} THEN DigitVal(t[2])
    ELSE IF Len(t) = 1 /\ t[1] \in Digits \ {"0"} THEN DigitVal(t[1])
    ELSE NoMatch

\* datetime.strptime(date_str, '%Y-%m-%d'): the date, or ValueError where Python
\* raises ValueError (no match, unconverted data, year 0, day out of range).
strptime(date_str) ==
    LET dashes == {i \in 1..Len(date_str) : date_str[i] = "-"}
    IN  IF Cardinality(dashes) # 2 THEN ValueError
        ELSE LET p1 == CHOOSE i \in dashes : \A j \in dashes : i <= j
                 p2 == CHOOSE i \in dashes : \A j \in dashes : j <= i
                 y  == Directive_Y(SubSeq(date_str, 1, p1 - 1))
                 m  == Directive_m(SubSeq(date_str, p1 + 1, p2 - 1))
                 d  == Directive_d(SubSeq(date_str, p2 + 1, Len(date_str)))
             IN  IF y = NoMatch \/ m = NoMatch \/ d = NoMatch THEN ValueError
                 ELSE IF y < 1 \/ d > DaysInMonth(y, m) THEN ValueError
                 ELSE [year |-> y, month |-> m, day |-> d]

(***************************************************************************)
(* Pure functions of the program                                           *)
(***************************************************************************)

\* The try body of extract_backup_date: filename and date_str are assigned once,
\* then strptime parses the basename's text before the first "_".
parse_backup_date(blob_name) ==
    CHOOSE parsed \in
        {strptime(date_str) :
            date_str \in {split_first(filename, "_") :
                            filename \in {basename(blob_name)}}} : TRUE

\* extract_backup_date without its except clause: the ValueError reaches the caller.
extract_backup_date_unguarded(blob_name) == parse_backup_date(blob_name)

\* extract_backup_date: the except clause turns every failure into None.
extract_backup_date(blob_name) ==
    CHOOSE backup_date \in
        {IF parsed = ValueError THEN None ELSE parsed :
            parsed \in {parse_backup_date(blob_name)}} : TRUE

\* The target path process_server_backups computes for a blob.
target_path_of(blob_name, db_config) ==
    replace(blob_name, db_config.source_path, db_config.target_path)

\* f"{db_config['source_path']}/{server}"
server_source_path(db_config, server) == db_config.source_path \o <<"/">> \o server

(***************************************************************************)
(* Storage backend: a bucket is a function from the names of the objects   *)
(* it holds to their content (which stands for the checksum as well).      *)
(***************************************************************************)

\* What a copy that the backend garbled holds: unequal to every stored content.
Garbled == "garbled"

Put(bucket, name, content) ==
    [k \in DOMAIN bucket \cup {name} |-> IF k = name THEN content ELSE bucket[k]]

\* blob.delete() that leaves the object where it is.
Remove_nothing(bucket, name) == bucket

Remove(bucket, name) == [k \in DOMAIN bucket \ {name} |-> bucket[k]]

RECURSIVE Sorted(_)
Sorted(names) ==
    IF names = {} THEN <<>>
    ELSE LET first == CHOOSE n \in names : \A o \in names \ {n} : NameLess(n, o)
         IN  <<first>> \o Sorted(names \ {first})

\* list(bucket.list_blobs(prefix=prefix)): every name with the prefix, in name order.
list_blobs(bucket, prefix) == Sorted({n \in DOMAIN bucket : startswith(n, prefix)})

(***************************************************************************)
(* Configurations and storage states the runs start from                   *)
(***************************************************************************)

Slash == <<"/">>
D_2024_01_01 == <<"2", "0", "2", "4", "-", "0", "1", "-", "0", "1">>
D_2024_01_15 == <<"2", "0", "2", "4", "-", "0", "1", "-", "1", "5">>
D_2024_01_31 == <<"2", "0", "2", "4", "-", "0", "1", "-", "3", "1">>
D_2024_02_01 == <<"2", "0", "2", "4", "-", "0", "2", "-", "0", "1">>
D_2024_02_20 == <<"2", "0", "2", "4", "-", "0", "2", "-", "2", "0">>
Ext_sql_gz == <<".", "s", "q", "l", ".", "g", "z">>
Ext_gz == <<".", "g", "z">>
Ext_e == <<".", "e">>
Today == [year |-> 2024, month |-> 3, day |-> 1]

\* The end-to-end scenario: one group, one server, an old dump, a recent dump
\* and a file of another extension.
PgSource == <<"b", "a", "c", "k", "u", "p", "s", "/", "p", "g">>
PgTarget == <<"a", "r", "c", "h", "i", "v", "e", "/", "p", "g">>
Db1 == <<"d", "b", "1">>
Db10 == <<"d", "b", "1", "0">>
PgOldKey == PgSource \o Slash \o Db1 \o Slash \o D_2024_01_15 \o <<"_", "d", "u", "m", "p">> \o Ext_sql_gz
PgNewKey == PgSource \o Slash \o Db1 \o Slash \o D_2024_02_20 \o <<"_", "d", "u", "m", "p">> \o Ext_sql_gz
PgNotes  == PgSource \o Slash \o Db1 \o Slash \o <<"n", "o", "t", "e", "s", ".", "t", "x", "t">>
PgOldArchived == PgTarget \o Slash \o Db1 \o Slash \o D_2024_01_15 \o <<"_", "d", "u", "m", "p">> \o Ext_sql_gz

ScenarioPostgres ==
    [databases |-> << [source_path |-> PgSource, target_path |-> PgTarget,
                       file_extension |-> Ext_sql_gz, servers |-> <<Db1>>] >>,
     retention_days |-> 30,
     now |-> Today,
     source |-> (PgOldKey :> "A") @@ (PgNewKey :> "B") @@ (PgNotes :> "C"),
     target |-> <<>>]

\* Two servers of one group, one identifier a prefix of the other.
BkSource == <<"b", "k">>
BkTarget == <<"a", "r">>
BkKey1  == BkSource \o Slash \o Db1 \o Slash \o D_2024_01_15 \o <<"_", "a">> \o Ext_gz
BkKey10 == BkSource \o Slash \o Db10 \o Slash \o D_2024_01_15 \o <<"_", "a">> \o Ext_gz

ScenarioPrefixServers ==
    [databases |-> << [source_path |-> BkSource, target_path |-> BkTarget,
                       file_extension |-> Ext_gz, servers |-> <<Db1, Db10>>] >>,
     retention_days |-> 30,
     now |-> Today,
     source |-> (BkKey1 :> "A") @@ (BkKey10 :> "B"),
     target |-> <<>>]

\* A source_path that also occurs further down the object names.
ShortSource == <<"b">>
ShortTarget == <<"c">>
SrvB1 == <<"b", "1">>
SrvC1 == <<"c", "1">>
ShortKeyB1 == ShortSource \o Slash \o SrvB1 \o Slash \o D_2024_01_15 \o <<"_", "x">> \o Ext_e
ShortKeyC1 == ShortSource \o Slash \o SrvC1 \o Slash \o D_2024_01_15 \o <<"_", "x">> \o Ext_e

ScenarioShortPaths ==
    [databases |-> << [source_path |-> ShortSource, target_path |-> ShortTarget,
                       file_extension |-> Ext_e, servers |-> <<SrvB1, SrvC1>>] >>,
     retention_days |-> 30,
     now |-> Today,
     source |-> (ShortKeyB1 :> "A") @@ (ShortKeyC1 :> "B"),
     target |-> <<>>]

\* Two groups; objects exactly retention_days old and one day younger, an
\* undated name, and a destination that exists before the run.
HotPg  == <<"h", "o", "t", "/", "p", "g">>
ColdPg == <<"c", "o", "l", "d", "/", "p", "g">>
HotMy  == <<"h", "o", "t", "/", "m", "y">>
ColdMy == <<"c", "o", "l", "d", "/", "m", "y">>
SrvA == <<"a">>
SrvB == <<"b">>
HotPgBoundary == HotPg \o Slash \o SrvA \o Slash \o D_2024_01_31 \o <<"_", "d">> \o Ext_gz
HotMyYoung    == HotMy \o Slash \o SrvA \o Slash \o D_2024_02_01 \o <<"_", "d">> \o Ext_gz
HotMyOld      == HotMy \o Slash \o SrvB \o Slash \o D_2024_01_01 \o <<"_", "d">> \o Ext_gz
HotMyUndated  == HotMy \o Slash \o SrvB \o Slash \o <<"n", "o", "d", "a", "t", "e">> \o Ext_gz
ColdMyOld     == ColdMy \o Slash \o SrvB \o Slash \o D_2024_01_01 \o <<"_", "d">> \o Ext_gz

ScenarioTwoGroups ==
    [databases |-> << [source_path |-> HotPg, target_path |-> ColdPg,
                       file_extension |-> Ext_gz, servers |-> <<SrvA>>],
                      [source_path |-> HotMy, target_path |-> ColdMy,
                       file_extension |-> Ext_gz, servers |-> <<SrvA, SrvB>>] >>,
     retention_days |-> 30,
     now |-> Today,
     source |-> (HotPgBoundary :> "A") @@ (HotMyYoung :> "B") @@ (HotMyOld :> "C")
                @@ (HotMyUndated :> "D"),
     target |-> (ColdMyOld :> "Z")]

Scenarios == {ScenarioPostgres, ScenarioPrefixServers, ScenarioShortPaths, ScenarioTwoGroups}

\* One group, one server; the object under test, alone or beside an old dump.
\* date.strftime('%Y-%m-%d') writes the names of the dated objects.
Digit(n) == CHOOSE c \in Digits : DigitVal(c) = n

strftime(d) ==
    <<Digit(d.year \div 1000), Digit((d.year \div 100) % 10), Digit((d.year \div 10) % 10),
      Digit(d.year % 10), "-", Digit(d.month \div 10), Digit(d.month % 10), "-",
      Digit(d.day \div 10), Digit(d.day % 10)>>

Date(y, m, d) == [year |-> y, month |-> m, day |-> d]

\* Days around the ends of February 2024 (a leap year), January 2024 and 2023.
TestDates ==
    {Date(2024, 3, 2), Date(2024, 3, 1), Date(2024, 2, 29), Date(2024, 2, 1),
     Date(2024, 1, 31), Date(2024, 1, 30), Date(2024, 1, 11), Date(2024, 1, 10),
     Date(2023, 12, 12), Date(2023, 12, 11)}

TestNows == {Today, Date(2024, 1, 10)}

\* --days 0 and the configured retention_days.
TestThresholds == {0, 30}

DatedName(d) == strftime(d) \o <<"_", "d">> \o Ext_gz

\* Basenames strptime rejects: no date, 30 February, year 0, no "_" after the
\* date, no dashes, nothing before the "_", month 13.
UndatedNames ==
    {<<"n", "o", "d", "a", "t", "e", ".", "g", "z">>,
     <<"2", "0", "2", "4", "-", "0", "2", "-", "3", "0", "_", "d", ".", "g", "z">>,
     <<"0", "0", "0", "0", "-", "0", "1", "-", "0", "1", "_", "d", ".", "g", "z">>,
     <<"2", "0", "2", "4", "-", "0", "1", "-", "3", "1", ".", "g", "z">>,
     <<"2", "0", "2", "4", "0", "1", "3", "1", "_", "d", ".", "g", "z">>,
     <<"_", "d", ".", "g", "z">>,
     <<"2", "0", "2", "4", "-", "1", "3", "-", "0", "1", "_", "d", ".", "g", "z">>}

\* A basename strptime accepts although it is not zero-padded: 5 January 2024.
UnpaddedName == <<"2", "0", "2", "4", "-", "1", "-", "5", "_", "d", ".", "g", "z">>

TestKey(name) == HotPg \o Slash \o SrvA \o Slash \o name

OldDump == TestKey(<<"2", "0", "2", "0", "-", "0", "6", "-", "1", "5", "_", "z", ".", "g", "z">>)

ScenarioOneObject(name, today, days, beside) ==
    [databases |-> << [source_path |-> HotPg, target_path |-> ColdPg,
                       file_extension |-> Ext_gz, servers |-> <<SrvA>>] >>,
     retention_days |-> days,
     now |-> today,
     source |-> (TestKey(name) :> "A") @@ beside,
     target |-> <<>>]

TestScenarios ==
    {ScenarioOneObject(DatedName(d), today, days, <<>>) :
        d \in TestDates, today \in TestNows, days \in TestThresholds}
    \cup {ScenarioOneObject(name, Today, 30, OldDump :> "B") :
            name \in UndatedNames \cup {UnpaddedName}}

\* --max-workers values the runs are started with (1: one task at a time).
WorkerChoices == {1, 8}

\* How many times main() is executed, one execution after the other.
MaxRuns == 2
\* How many storage calls may fail or misbehave over the executions.
MaxFaults == 1

(***************************************************************************)
(* State                                                                   *)
(***************************************************************************)
VARIABLES
    config,          \* load_config's result: databases (in file order) and retention_days
    dry_run,         \* args.dry_run
    max_workers,     \* args.max_workers
    now,             \* the day datetime.utcnow() falls on
    source_bucket,   \* the objects of the source bucket
    target_bucket,   \* the objects of the target bucket
    run,             \* which execution of main() this is
    main_pc,         \* main(): "group" inside process_backups_parallel, "done", "aborted"
    db,              \* index of the group main()'s loop is at
    task,            \* per server of the group: the state of its process_server_backups call
    collected,       \* the servers whose future the as_completed loop has consumed
    total_moved,     \* process_backups_parallel's local
    total_processed, \* process_backups_parallel's local
    total_archived,  \* main()'s local
    reports,         \* per execution: the counts logged per group, the total, the failed tasks
    events,          \* history of the calls made on the storage backend and their results
    faults,          \* storage calls that failed or misbehaved so far
    at_start         \* the buckets as the current execution of main() found them

vars == <<config, dry_run, max_workers, now, source_bucket, target_bucket, run, main_pc,
          db, task, collected, total_moved, total_processed, total_archived, reports,
          events, faults, at_start>>

\* should_archive with the comparison made strict.
should_archive_strict(backup_date, threshold_days) ==
    IF backup_date = None THEN FALSE
    ELSE toordinal(now) - toordinal(backup_date) > threshold_days

\* should_archive.  backup_date is a midnight and utcnow() lies within the day
\* `now`, so timedelta.days is the difference of the two days' ordinals.
should_archive(backup_date, threshold_days) ==
    IF backup_date = None THEN FALSE
    ELSE toordinal(now) - toordinal(backup_date) >= threshold_days

db_config == config.databases[db]

Servers == DOMAIN db_config.servers

\* A future just submitted to the executor.
NewTask ==
    [pc |-> "queued", blobs |-> <<>>, i |-> 0, moved_count |-> 0, processed_count |-> 0,
     target_path |-> <<>>, intact |-> TRUE]

\* The dict comprehension of process_backups_parallel: one future per server.
Submit(databases, d) == [s \in DOMAIN databases[d].servers |-> NewTask]

NewReport == [counts |-> <<>>, total |-> 0, raised |-> {}]

\* ev is "attempt" (move_blob called), "copy" (copy_blob wrote dst; ok: with the
\* source's content), "delete" (blob.delete removed key; ok: dst then held the
\* source's content), "moved" (the MOVED or DRY-RUN line logged, True returned; ok:
\* the copy made was intact) or "failed" (an error line logged, False returned).
\* The program makes no logging.warning call, so no "warning" event is recorded.
Event(ev, s, key, dst, ok) ==
    [ev |-> ev, run |-> run, db |-> db, s |-> s, key |-> key, dst |-> dst, ok |-> ok]

\* main() up to its first call of process_backups_parallel, started on scenario sc.
Start(sc) ==
    /\ config = [databases |-> sc.databases, retention_days |-> sc.retention_days]
    /\ now = sc.now
    /\ source_bucket = sc.source
    /\ target_bucket = sc.target
    /\ at_start = [source |-> sc.source, target |-> sc.target]
    /\ task = Submit(sc.databases, 1)
    /\ dry_run \in BOOLEAN
    /\ max_workers \in WorkerChoices
    /\ run = 1
    /\ main_pc = "group"
    /\ db = 1
    /\ collected = {}
    /\ total_moved = 0
    /\ total_processed = 0
    /\ total_archived = 0
    /\ reports = <<NewReport>>
    /\ events = {}
    /\ faults = 0

Init == \E sc \in Scenarios : Start(sc)

\* The same program started on the one-object scenarios.
InitDates == \E sc \in TestScenarios : Start(sc)

(***************************************************************************)
(* process_server_backups, one action per storage call                     *)
(***************************************************************************)

Running(s) == task[s].pc \in {"loop", "copy", "delete"}

\* The executor starts queued futures in submission order, max_workers at a time.
CanStart(s) ==
    /\ task[s].pc = "queued"
    /\ \A r \in Servers : r < s => task[r].pc # "queued"
    /\ Cardinality({r \in Servers : Running(r)}) < max_workers

\* A worker picks the task up and the task lists its server's blobs; a listing
\* that raises ends the task with the exception stored in its future.
ListBlobs(s) ==
    /\ CanStart(s)
    /\ \/ /\ task' = [task EXCEPT ![s] =
                 [@ EXCEPT !.pc = "loop",
                           !.blobs = list_blobs(source_bucket,
                                        server_source_path(db_config, db_config.servers[s]))]]
          /\ UNCHANGED faults
       \/ /\ faults < MaxFaults
          /\ faults' = faults + 1
          /\ task' = [task EXCEPT ![s].pc = "raised"]
    /\ UNCHANGED <<config, dry_run, max_workers, now, source_bucket, target_bucket, run,
                   main_pc, db, collected, total_moved, total_processed, total_archived,
                   reports, events, at_start>>

\* move_blob without its dry-run branch.
move_blob_enter_live(t, target_path) ==
    [t EXCEPT !.pc = "copy", !.target_path = target_path, !.intact = TRUE]

\* move_blob up to its first storage call: a dry run returns True at once.
move_blob_enter(t, target_path) ==
    IF dry_run
    THEN [t EXCEPT !.moved_count = @ + 1]
    ELSE [t EXCEPT !.pc = "copy", !.target_path = target_path, !.intact = TRUE]

\* move_blob without its except clause: the error leaves process_server_backups.
move_blob_except_propagates(t) == [t EXCEPT !.pc = "raised"]

\* move_blob's except clause: log, return False; the loop goes on.
move_blob_except(t) == [t EXCEPT !.pc = "loop"]

\* move_blob without its `if new_blob:` test: the delete follows any copy_blob
\* call that returned.
move_blob_no_copy_deletes(t) == [t EXCEPT !.pc = "delete"]

\* move_blob's else branch (copy_blob returned nothing): log, return False.
move_blob_no_copy(t) == [t EXCEPT !.pc = "loop"]

\* The loop takes the next blob without counting it.
count_blob_uncounted(t) == [t EXCEPT !.i = @ + 1]

\* for blob in blobs: processed_count += 1
count_blob(t) == [t EXCEPT !.i = @ + 1, !.processed_count = @ + 1]

\* One iteration of the for loop, up to move_blob's first storage call.
NextBlob(s) ==
    LET t       == task[s]
        blob    == t.blobs[t.i + 1]
        counted == count_blob(t)
        target  == target_path_of(blob, db_config)
        entered == move_blob_enter(counted, target)
    IN  /\ t.pc = "loop"
        /\ t.i < Len(t.blobs)
        /\ \E date \in {extract_backup_date(blob)} :   \* backup_date, assigned once
           IF endswith(blob, db_config.file_extension) /\ date = ValueError
           THEN \* an exception of extract_backup_date is caught nowhere in the task
                /\ task' = [task EXCEPT ![s] = [counted EXCEPT !.pc = "raised"]]
                /\ UNCHANGED events
           ELSE IF /\ endswith(blob, db_config.file_extension)
                   /\ date # None
                   /\ should_archive(date, config.retention_days)
           THEN /\ task' = [task EXCEPT ![s] = entered]
                /\ events' = events \cup {Event("attempt", s, blob, target, TRUE)}
                                    \cup (IF entered.moved_count > t.moved_count
                                          THEN {Event("moved", s, blob, target, TRUE)}
                                          ELSE {})
           ELSE /\ task' = [task EXCEPT ![s] = counted]
                /\ UNCHANGED events
        /\ UNCHANGED <<config, dry_run, max_workers, now, source_bucket, target_bucket, run,
                       main_pc, db, collected, total_moved, total_processed,
                       total_archived, reports, faults, at_start>>

\* blob.bucket.copy_blob(blob, target_bucket, target_path)
CopyBlob(s) ==
    LET t    == task[s]
        blob == t.blobs[t.i]
    IN  /\ t.pc = "copy"
        /\ \/ \* the copy is made and a blob is returned; the backend may have garbled it
              /\ blob \in DOMAIN source_bucket
              /\ \E garbled \in BOOLEAN :
                    /\ garbled => faults < MaxFaults
                    /\ faults' = IF garbled THEN faults + 1 ELSE faults
                    /\ target_bucket' = Put(target_bucket, t.target_path,
                                            IF garbled THEN Garbled ELSE source_bucket[blob])
                    /\ task' = [task EXCEPT ![s] = [t EXCEPT !.pc = "delete", !.intact = ~garbled]]
                    /\ events' = events \cup {Event("copy", s, blob, t.target_path, ~garbled)}
           \/ \* the call raises: the source object is gone (NotFound), or the transport fails
              /\ \/ blob \notin DOMAIN source_bucket /\ faults' = faults
                 \/ faults < MaxFaults /\ faults' = faults + 1
              /\ task' = [task EXCEPT ![s] = move_blob_except(t)]
              /\ events' = events \cup {Event("failed", s, blob, t.target_path, FALSE)}
              /\ UNCHANGED target_bucket
           \/ \* the call returns no blob
              /\ faults < MaxFaults
              /\ faults' = faults + 1
              /\ task' = [task EXCEPT ![s] = move_blob_no_copy(t)]
              /\ events' = events \cup {Event("failed", s, blob, t.target_path, FALSE)}
              /\ UNCHANGED target_bucket
        /\ UNCHANGED <<config, dry_run, max_workers, now, source_bucket, run, main_pc, db,
                       collected, total_moved, total_processed, total_archived, reports,
                       at_start>>

\* blob.delete(), then "MOVED" is logged and True returned
DeleteBlob(s) ==
    LET t        == task[s]
        blob     == t.blobs[t.i]
        verified == /\ t.target_path \in DOMAIN target_bucket
                    /\ target_bucket[t.target_path] = source_bucket[blob]
    IN  /\ t.pc = "delete"
        /\ \/ /\ blob \in DOMAIN source_bucket
              /\ source_bucket' = Remove(source_bucket, blob)
              /\ task' = [task EXCEPT ![s] = [t EXCEPT !.pc = "loop", !.moved_count = @ + 1]]
              /\ events' = events \cup {Event("delete", s, blob, t.target_path, verified),
                                        Event("moved", s, blob, t.target_path, t.intact)}
              /\ UNCHANGED faults
           \/ \* the call raises: the source object is gone (NotFound), or the transport fails
              /\ \/ blob \notin DOMAIN source_bucket /\ faults' = faults
                 \/ faults < MaxFaults /\ faults' = faults + 1
              /\ task' = [task EXCEPT ![s] = move_blob_except(t)]
              /\ events' = events \cup {Event("failed", s, blob, t.target_path, FALSE)}
              /\ UNCHANGED source_bucket
        /\ UNCHANGED <<config, dry_run, max_workers, now, target_bucket, run, main_pc, db,
                       collected, total_moved, total_processed, total_archived, reports,
                       at_start>>

\* return moved_count, processed_count
ReturnTask(s) ==
    /\ task[s].pc = "loop"
    /\ task[s].i = Len(task[s].blobs)
    /\ task' = [task EXCEPT ![s].pc = "returned"]
    /\ UNCHANGED <<config, dry_run, max_workers, now, source_bucket, target_bucket, run,
                   main_pc, db, collected, total_moved, total_processed, total_archived,
                   reports, events, faults, at_start>>

(***************************************************************************)
(* process_backups_parallel and main                                       *)
(***************************************************************************)

\* future.result() outside any try: the task's exception leaves main().
on_task_error_uncaught == "aborted"

\* The except clause around future.result(): log the error, go on collecting.
on_task_error == "group"

\* total_moved = moved: the result of the last future replaces the sum so far.
add_moved_last(total, moved) == moved

\* total_moved += moved
add_moved(total, moved) == total + moved

\* One iteration of the as_completed loop: any finished future not yet consumed.
CollectResult(s) ==
    /\ main_pc = "group"
    /\ s \notin collected
    /\ task[s].pc \in {"returned", "raised"}
    /\ collected' = collected \cup {s}
    /\ IF task[s].pc = "returned"
       THEN /\ total_moved' = add_moved(total_moved, task[s].moved_count)
            /\ total_processed' = total_processed + task[s].processed_count
            /\ UNCHANGED <<main_pc, reports>>
       ELSE /\ main_pc' = on_task_error
            /\ reports' = [reports EXCEPT ![run].raised = @ \cup {<<db, s>>}]
            /\ UNCHANGED <<total_moved, total_processed>>
    /\ UNCHANGED <<config, dry_run, max_workers, now, source_bucket, target_bucket, run, db,
                   task, total_archived, events, faults, at_start>>

\* total_archived = count: the group's count replaces the running total.
add_count_overwrite(total, count) == count

\* total_archived += count
add_count(total, count) == total + count

\* process_backups_parallel returns total_moved; main logs the group's count, adds
\* it to total_archived and goes to the next group, or logs the total and ends.
ReturnGroup ==
    /\ main_pc = "group"
    /\ collected = Servers
    /\ total_archived' = add_count(total_archived, total_moved)
    /\ reports' = [reports EXCEPT ![run].counts = Append(@, total_moved),
                                  ![run].total = add_count(total_archived, total_moved)]
    /\ IF db < Len(config.databases)
       THEN /\ db' = db + 1
            /\ task' = Submit(config.databases, db + 1)
            /\ collected' = {}
            /\ total_moved' = 0
            /\ total_processed' = 0
            /\ UNCHANGED main_pc
       ELSE /\ main_pc' = "done"
            /\ UNCHANGED <<db, task, collected, total_moved, total_processed>>
    /\ UNCHANGED <<config, dry_run, max_workers, now, source_bucket, target_bucket, run,
                   events, faults, at_start>>

\* The script is run again, with the same arguments, on the storage as it is now.
StartRun ==
    /\ main_pc = "done"
    /\ run < MaxRuns
    /\ run' = run + 1
    /\ main_pc' = "group"
    /\ db' = 1
    /\ task' = Submit(config.databases, 1)
    /\ collected' = {}
    /\ total_moved' = 0
    /\ total_processed' = 0
    /\ total_archived' = 0
    /\ reports' = Append(reports, NewReport)
    /\ at_start' = [source |-> source_bucket, target |-> target_bucket]
    /\ UNCHANGED <<config, dry_run, max_workers, now, source_bucket, target_bucket, events,
                   faults>>

Next ==
    \/ \E s \in Servers : ListBlobs(s)
    \/ \E s \in Servers : NextBlob(s)
    \/ \E s \in Servers : CopyBlob(s)
    \/ \E s \in Servers : DeleteBlob(s)
    \/ \E s \in Servers : ReturnTask(s)
    \/ \E s \in Servers : CollectResult(s)
    \/ ReturnGroup
    \/ StartRun

Spec == Init /\ [][Next]_vars

\* Scheduling: the executor runs every submitted task, each storage call returns
\* or raises, and main blocks in as_completed and in the with block's exit until
\* every future is done; so a step that stays possible is eventually taken.
FairSpec == Spec /\ WF_vars(Next)

\* extract_backup_date and should_archive applied to the test names, days and
\* thresholds by the program's own loop.
SpecDates == InitDates /\ [][Next]_vars

(***************************************************************************)
(* Claims                                                                  *)
(***************************************************************************)

LiveRun == ~dry_run

\* C1: in a live run the source object is deleted only when, at that moment, its
\* copy is present at the destination key with a checksum equal to the source's;
\* an object whose copy came out with another checksum is still in the source
\* bucket when the run ends.
C1_DeleteOnlyAfterVerifiedCopy ==
    LiveRun =>
        /\ \A e \in events : e.ev = "delete" => e.ok
        /\ main_pc = "done" =>
              \A e \in events :
                  (e.ev = "copy" /\ e.run = run /\ ~e.ok) => e.key \in DOMAIN source_bucket

Elements(seq) == {seq[i] : i \in DOMAIN seq}

\* C2: no object key is listed by two tasks of a group, and no two tasks are at
\* the copy or delete of the same source object at once.
C2_OneTaskPerObject ==
    \A s1 \in Servers : \A s2 \in Servers \ {s1} :
        /\ Elements(task[s1].blobs) \cap Elements(task[s2].blobs) = {}
        /\ (task[s1].pc \in {"copy", "delete"} /\ task[s2].pc \in {"copy", "delete"})
              => task[s1].blobs[task[s1].i] # task[s2].blobs[task[s2].i]

\* The executions of main() that have reported their total.
Finished == {r \in DOMAIN reports : r < run \/ main_pc = "done"}

\* C3: in dry-run mode no copy and no delete is issued and both buckets stay as
\* the run found them; executions whose listings behaved alike report the same
\* per-group counts and the same total.
C3_DryRunNoSideEffects ==
    dry_run =>
        /\ source_bucket = at_start.source
        /\ target_bucket = at_start.target
        /\ \A e \in events : e.ev \notin {"copy", "delete", "failed"}
        /\ \A s \in Servers : task[s].pc \notin {"copy", "delete"}
        /\ \A r1 \in Finished : \A r2 \in Finished :
              reports[r1].raised = reports[r2].raised =>
                  /\ reports[r1].counts = reports[r2].counts
                  /\ reports[r1].total = reports[r2].total

\* Two dry runs have reported, alike, a positive number of objects to move.
C3_Witness ==
    /\ dry_run
    /\ run = 2
    /\ main_pc = "done"
    /\ reports[1].raised = reports[2].raised
    /\ reports[1].total > 0
    /\ reports[2].total = reports[1].total

\* The outcome of the run in which the tasks run one after another, in
\* submission order, and no storage call fails: what --max-workers 1 does.
RECURSIVE SeqBlobs(_, _, _)
SeqBlobs(st, blobs, cfg) ==
    IF blobs = <<>> THEN st
    ELSE LET blob == Head(blobs)
             date == extract_backup_date(blob)
             hit  == /\ endswith(blob, cfg.file_extension)
                     /\ should_archive(date, config.retention_days)
                     /\ blob \in DOMAIN st.source
             nxt  == IF hit
                     THEN [source |-> Remove(st.source, blob),
                           target |-> Put(st.target, target_path_of(blob, cfg), st.source[blob]),
                           moved  |-> st.moved + 1]
                     ELSE st
         IN  SeqBlobs(nxt, Tail(blobs), cfg)

RECURSIVE SeqServers(_, _, _)
SeqServers(st, cfg, servers) ==
    IF servers = <<>> THEN st
    ELSE SeqServers(SeqBlobs(st, list_blobs(st.source, server_source_path(cfg, Head(servers))), cfg),
                    cfg, Tail(servers))

RECURSIVE SeqGroups(_, _)
SeqGroups(st, databases) ==
    IF databases = <<>> THEN st
    ELSE SeqGroups(SeqServers(st, Head(databases), Head(databases).servers), Tail(databases))

OneWorkerOutcome ==
    SeqGroups([source |-> at_start.source, target |-> at_start.target, moved |-> 0],
              config.databases)

\* C4: a live run in which no storage call fails ends, whatever max_workers is and
\* however the tasks interleave, with the total and the bucket contents of the
\* run with one worker.
C4_OrderIndependent ==
    (LiveRun /\ main_pc = "done" /\ faults = 0) =>
        /\ total_archived = OneWorkerOutcome.moved
        /\ source_bucket = OneWorkerOutcome.source
        /\ target_bucket = OneWorkerOutcome.target

\* C5: within the processing of one group, two copies written to the same
\* destination key are copies of the same source key.
C5_DestinationUnique ==
    \A e1 \in events : \A e2 \in events :
        (e1.ev = "copy" /\ e2.ev = "copy" /\ e1.run = e2.run /\ e1.db = e2.db /\ e1.dst = e2.dst)
            => e1.key = e2.key

\* The mapping section 4.3 specifies: only the leading source prefix is replaced.
PrefixMap(source_prefix, target_prefix, key) ==
    IF startswith(key, source_prefix)
    THEN target_prefix \o SubSeq(key, Len(source_prefix) + 1, Len(key))
    ELSE target_prefix \o key

\* C6: the target path handed to move_blob is target_path followed by what follows
\* the leading source_path in the key, everything beneath it kept verbatim.
C6_PathMapping ==
    \A e \in events :
        e.ev = "attempt" =>
            e.dst = PrefixMap(config.databases[e.db].source_path,
                              config.databases[e.db].target_path, e.key)

RECURSIVE SumMoved(_)
SumMoved(S) ==
    IF S = {} THEN 0
    ELSE LET s == CHOOSE x \in S : TRUE IN task[s].moved_count + SumMoved(S \ {s})

\* C7: a task that raised is caught by the orchestrator and adds nothing; the
\* total is the sum of the moved counts of the collected tasks that returned;
\* when the group is about to return every sibling has finished and main() has
\* not been aborted.
C7_TaskFailureIsolated ==
    /\ main_pc # "aborted"
    /\ total_moved = SumMoved({s \in collected : task[s].pc = "returned"})
    /\ collected = Servers =>
          /\ \A s \in Servers : task[s].pc \in {"returned", "raised"}
          /\ total_moved = SumMoved({s \in Servers : task[s].pc # "raised"})

\* A group about to return a positive total although one of its tasks raised.
C7_Witness ==
    /\ main_pc = "group"
    /\ collected = Servers
    /\ \E s \in Servers : task[s].pc = "raised"
    /\ \E s \in Servers : task[s].pc = "returned" /\ task[s].moved_count > 0
    /\ total_moved > 0

MovedBy(s) == {e \in events : e.ev = "moved" /\ e.run = run /\ e.db = db /\ e.s = s}
FailedBy(s) == {e \in events : e.ev = "failed" /\ e.run = run /\ e.db = db /\ e.s = s}

\* C8: a storage error in copy or delete ends in move_blob: a task that has
\* listed its blobs never ends raised, an object whose move failed is not counted,
\* and a returned task has gone through every listed blob.
C8_MoveErrorsContained ==
    \A s \in Servers :
        /\ task[s].pc = "raised" => (task[s].i = 0 /\ FailedBy(s) = {})
        /\ task[s].moved_count = Cardinality(MovedBy(s))
        /\ \A f \in FailedBy(s) : \A m \in MovedBy(s) : f.key # m.key
        /\ task[s].pc = "returned" =>
              (task[s].i = Len(task[s].blobs) /\ task[s].processed_count = Len(task[s].blobs))

\* A task returned after a failed move of one object and a move of a later one.
C8_Witness ==
    \E s \in Servers :
        /\ task[s].pc = "returned"
        /\ \E f \in FailedBy(s) : \E m \in MovedBy(s) :
              /\ f.key = task[s].blobs[1]
              /\ m.key = task[s].blobs[2]
        /\ task[s].moved_count = 1
        /\ task[s].processed_count = 2

\* C9: in a live run an object is reported Moved, and counted, only if the copy
\* made for it has the checksum of the source.
C9_GarbledCopyNeverMoved ==
    LiveRun => \A e \in events : e.ev = "moved" => e.ok

\* The selection rule: extension, a date in the basename, old enough.
Eligible(key, cfg) ==
    /\ endswith(key, cfg.file_extension)
    /\ extract_backup_date(key) # None
    /\ toordinal(now) - toordinal(extract_backup_date(key)) >= config.retention_days

\* C10: a task attempts the move of exactly the listed objects that have the
\* group's extension, a date in the basename and at least the threshold's age;
\* objects no group selects stay in the source bucket as they were; the
\* end-to-end scenario ends with the old dump archived and the other two in place.
C10_Selection ==
    /\ \A e \in events : Eligible(e.key, config.databases[e.db])
    /\ \A s \in Servers : \A j \in 1..task[s].i :
          Eligible(task[s].blobs[j], db_config) =>
              \E e \in events : /\ e.ev = "attempt" /\ e.run = run /\ e.db = db /\ e.s = s
                                /\ e.key = task[s].blobs[j]
    /\ \A k \in DOMAIN at_start.source :
          (\A d \in DOMAIN config.databases : ~Eligible(k, config.databases[d]))
              => (k \in DOMAIN source_bucket /\ source_bucket[k] = at_start.source[k])
    /\ (config.databases = ScenarioPostgres.databases /\ LiveRun /\ faults = 0
        /\ main_pc = "done") =>
          /\ PgOldArchived \in DOMAIN target_bucket
          /\ target_bucket[PgOldArchived] = "A"
          /\ PgOldKey \notin DOMAIN source_bucket
          /\ DOMAIN source_bucket = {PgNewKey, PgNotes}
          /\ reports[1].total = 1

\* The end-to-end scenario has run live, without a failing storage call.
C10_Witness ==
    /\ config.databases = ScenarioPostgres.databases
    /\ LiveRun
    /\ faults = 0
    /\ run = 1
    /\ main_pc = "done"
    /\ PgOldArchived \in DOMAIN target_bucket
    /\ \E e \in events : e.ev = "moved" /\ e.key = PgOldKey /\ e.dst = PgOldArchived

\* C11: a live move whose destination key was in the target bucket before the
\* run still succeeds: the source is deleted, the destination holds the source's
\* content, the outcome is Moved, and a warning about the existing destination is
\* logged.
C11_PreexistingDestination ==
    LiveRun =>
        \A e \in events :
            (e.ev = "moved" /\ e.ok /\ e.run = run /\ e.dst \in DOMAIN at_start.target) =>
                /\ e.key \notin DOMAIN source_bucket
                /\ e.dst \in DOMAIN target_bucket
                /\ \E w \in events : w.ev = "warning" /\ w.run = e.run /\ w.key = e.key

\* C12: whatever storage calls fail, main() is never aborted, every execution
\* that has started ends, and when it ends a count has been logged for every
\* configured group and the total logged is the sum accumulated.
C12_RunCompletes ==
    /\ [](main_pc # "aborted")
    /\ [](main_pc = "done" =>
            /\ Len(reports[run].counts) = Len(config.databases)
            /\ reports[run].total = total_archived)
    /\ (main_pc = "group") ~> (main_pc = "done")

\* An execution over two groups has ended although one of its tasks raised.
C12_Witness ==
    /\ main_pc = "done"
    /\ Len(config.databases) = 2
    /\ reports[run].raised # {}
    /\ Len(reports[run].counts) = 2

\* The calendar walked one day at a time, for counting whole days between dates.
NextDay(d) ==
    IF d.day < DaysInMonth(d.year, d.month) THEN [d EXCEPT !.day = @ + 1]
    ELSE IF d.month < 12 THEN Date(d.year, d.month + 1, 1)
    ELSE Date(d.year + 1, 1, 1)

Earlier(a, b) ==
    \/ a.year < b.year
    \/ a.year = b.year /\ a.month < b.month
    \/ a.year = b.year /\ a.month = b.month /\ a.day < b.day

RECURSIVE DaysFrom(_, _)
DaysFrom(a, b) == IF a = b THEN 0 ELSE 1 + DaysFrom(NextDay(a), b)

\* (now - d).days: now is a moment of the day `now`, d a midnight.
AgeDays(d) == IF Earlier(now, d) THEN 0 - DaysFrom(now, d) ELSE DaysFrom(d, now)

\* The key of the object named after each test date, and the undated keys.
DatedKey == [d \in TestDates |-> TestKey(DatedName(d))]
UndatedKeys == {TestKey(n) : n \in UndatedNames}
UnpaddedKey == TestKey(UnpaddedName)

\* The objects the loop of task s has gone through.
Examined(s) == {task[s].blobs[k] : k \in 1..task[s].i}

\* The names the source bucket held when this execution began.
Listed == DOMAIN at_start.source

Attempted(key) == \E e \in events : e.ev = "attempt" /\ e.run = run /\ e.key = key

\* C13: should_archive is false for an absent date; for the date of an object in
\* the bucket it is true exactly when the whole days from the date to now are at
\* least the threshold, so an object exactly threshold days old is eligible and
\* one a day younger is not; and the loop calls move_blob for a dated object
\* exactly in that case.
C13_RetentionPolicy ==
    /\ \A th \in TestThresholds : ~should_archive(None, th)
    /\ \A d \in {x \in TestDates : DatedKey[x] \in Listed} :
          LET age == AgeDays(d)
          IN  \A th \in TestThresholds :
                  /\ should_archive(d, th) <=> (age >= th)
                  /\ age = th => should_archive(d, th)
                  /\ age = th - 1 => ~should_archive(d, th)
    /\ \A s \in Servers, d \in TestDates :
          DatedKey[d] \in Examined(s) =>
              (Attempted(DatedKey[d]) <=> (AgeDays(d) >= config.retention_days))

\* An object exactly retention_days old, not zero, has been handed to move_blob.
C13_Witness ==
    \E d \in TestDates :
        /\ config.retention_days > 0
        /\ AgeDays(d) = config.retention_days
        /\ Attempted(DatedKey[d])

RECURSIVE SumSeq(_)
SumSeq(q) == IF q = <<>> THEN 0 ELSE Head(q) + SumSeq(Tail(q))

TaskOver(t) == t.pc \in {"returned", "raised"}

\* C14: main goes from one group to the next one configured, and only when every
\* task of the group has finished and been collected; the tasks of the next group
\* are all still queued at that moment.  The total logged at the end is the sum of
\* the counts logged per group.
C14_GroupsSequential ==
    /\ [][(db' # db /\ run' = run) =>
              /\ db' = db + 1
              /\ \A s \in Servers : TaskOver(task[s]) /\ s \in collected
              /\ \A s \in DOMAIN task' : task'[s].pc = "queued"
              /\ Len(reports'[run].counts) = db]_vars
    /\ [](main_pc = "done" =>
              /\ Len(reports[run].counts) = Len(config.databases)
              /\ reports[run].total = SumSeq(reports[run].counts)
              /\ total_archived = SumSeq(reports[run].counts))

\* An execution over two groups has ended and each group had moved something.
C14_Witness ==
    /\ main_pc = "done"
    /\ Len(reports[run].counts) = 2
    /\ reports[run].counts[1] > 0
    /\ reports[run].counts[2] > 0
    /\ reports[run].total = reports[run].counts[1] + reports[run].counts[2]

RECURSIVE SumProcessed(_)
SumProcessed(S) ==
    IF S = {} THEN 0
    ELSE LET s == CHOOSE x \in S : TRUE IN task[s].processed_count + SumProcessed(S \ {s})

Returned == {s \in Servers : task[s].pc = "returned"}

\* C15: whichever finished task the as_completed loop takes next, the counters of
\* process_backups_parallel are the sums over the returned tasks taken so far; they
\* change only in a step of the main thread, by one task's result, while no task
\* moves; and the count the call returns is the sum of the moved counts of the
\* tasks that returned.
C15_NoLostUpdates ==
    /\ [](/\ total_moved = SumMoved(collected \cap Returned)
          /\ total_processed = SumProcessed(collected \cap Returned))
    /\ [][((total_moved' # total_moved \/ total_processed' # total_processed)
             /\ db' = db /\ run' = run) =>
              /\ task' = task
              /\ \E s \in Returned \ collected :
                    /\ collected' = collected \cup {s}
                    /\ total_moved' = total_moved + task[s].moved_count
                    /\ total_processed' = total_processed + task[s].processed_count]_vars
    /\ [][(run' = run /\ Len(reports'[run].counts) > Len(reports[run].counts)) =>
              reports'[run].counts[db] = SumMoved(Returned)]_vars

\* The second server's result has been added while the first server's task, which
\* was submitted before it, is still at work.
C15_Witness ==
    /\ collected = {2}
    /\ task[2].pc = "returned"
    /\ task[2].moved_count > 0
    /\ total_moved = task[2].moved_count
    /\ Running(1)

IsDate(v) ==
    /\ v.year \in 1..9999
    /\ v.month \in 1..12
    /\ v.day \in 1..DaysInMonth(v.year, v.month)

EventsOn(key) == {e \in events : e.run = run /\ e.key = key}

\* C16: for every name in the bucket extract_backup_date yields a date or None,
\* never an exception: the date written in a well-formed name, None for a name
\* without a parsable date.  An object with such a name is counted as processed and nothing
\* is done to it: no move_blob call, no copy, no delete, it stays in the source
\* bucket; its task does not raise and goes on to the end of its listing.
C16_MalformedNamesSkipped ==
    /\ \A key \in Listed :
          LET v == extract_backup_date(key) IN v = None \/ IsDate(v)
    /\ \A d \in TestDates :
          DatedKey[d] \in Listed => extract_backup_date(DatedKey[d]) = d
    /\ \A key \in UndatedKeys \cap Listed : extract_backup_date(key) = None
    /\ UnpaddedKey \in Listed => extract_backup_date(UnpaddedKey) = Date(2024, 1, 5)
    /\ \A s \in Servers :
          /\ task[s].processed_count = task[s].i
          /\ task[s].pc = "raised" => task[s].i = 0
          /\ task[s].pc = "returned" => task[s].i = Len(task[s].blobs)
          /\ \A key \in UndatedKeys \cap Examined(s) :
                /\ EventsOn(key) = {}
                /\ key \in DOMAIN source_bucket
                /\ source_bucket[key] = at_start.source[key]

\* A live task has passed over an undated object, moved the dump listed after it
\* and returned: two processed, one moved.
C16_Witness ==
    \E s \in Servers, key \in UndatedKeys :
        /\ LiveRun
        /\ task[s].blobs = <<key, OldDump>>
        /\ task[s].pc = "returned"
        /\ task[s].processed_count = 2
        /\ task[s].moved_count = 1
        /\ OldDump \notin DOMAIN source_bucket
        /\ key \in DOMAIN source_bucket

\* Another task than the one of event e has called move_blob for e's object.
TouchedByOther(e) ==
    \E o \in events : o.run = e.run /\ o.key = e.key /\ (o.db # e.db \/ o.s # e.s)

\* C17: in a live execution, an object whose move_blob call returned False and
\* that no other task has touched is still in the source bucket; and no object
\* the source bucket held at the start is in neither bucket: it is still in the
\* source, or a copy_blob call has put an object at its destination.
C17_FailedMoveKeepsSource ==
    LiveRun =>
        /\ \A e \in events :
              (e.ev = "failed" /\ e.run = run /\ ~TouchedByOther(e)) =>
                  e.key \in DOMAIN source_bucket
        /\ \A key \in DOMAIN at_start.source :
              \/ key \in DOMAIN source_bucket
              \/ \E c \in events :
                    c.ev = "copy" /\ c.run = run /\ c.key = key /\ c.dst \in DOMAIN target_bucket

\* A delete has raised after its copy was made: move_blob returned False and the
\* object is in both buckets.
C17_Witness ==
    /\ LiveRun
    /\ \E e \in events :
          /\ e.ev = "failed" /\ e.run = run /\ ~TouchedByOther(e)
          /\ \E c \in events : c.ev = "copy" /\ c.run = run /\ c.key = e.key /\ c.s = e.s
          /\ e.key \in DOMAIN source_bucket
          /\ e.dst \in DOMAIN target_bucket
          /\ target_bucket[e.dst] = source_bucket[e.key]

\* Every move_blob call of execution r returned True.
TransfersSucceeded(r) == \A e \in events : e.run = r => e.ev # "failed"

\* Every listing of execution r returned as well: no task raised.
ListingsSucceeded(r) == reports[r].raised = {}

\* The execution under way has changed nothing and has handed nothing to move_blob.
NothingMoved ==
    /\ source_bucket = at_start.source
    /\ target_bucket = at_start.target
    /\ total_moved = 0
    /\ total_archived = 0
    /\ \A e \in events : e.run # run

\* C18 as stated: after a live execution in which every transfer succeeded, the
\* next live execution moves nothing and leaves both buckets as they were.
C18_IdempotentAfterTransfers ==
    (LiveRun /\ run > 1 /\ TransfersSucceeded(run - 1)) => NothingMoved

\* C18: after a live execution in which every listing and every transfer
\* succeeded, the next live execution, with the same now and configuration, moves
\* nothing and leaves both buckets as they were.
C18_Idempotent ==
    (LiveRun /\ run > 1 /\ TransfersSucceeded(run - 1) /\ ListingsSucceeded(run - 1)) =>
        NothingMoved

\* A second live execution has ended with a total of zero after a first one that
\* moved something and in which nothing failed.
C18_Witness ==
    /\ LiveRun
    /\ run = 2
    /\ main_pc = "done"
    /\ TransfersSucceeded(1)
    /\ ListingsSucceeded(1)
    /\ reports[1].total > 0
    /\ reports[2].total = 0
    /\ reports[2].raised = {}
    /\ NothingMoved

\* The names under the prefix task s listed, in bucket b.
UnderPrefix(s, b) ==
    {n \in DOMAIN b : startswith(n, server_source_path(db_config, db_config.servers[s]))}

\* C19: a task has counted every object its loop has gone through, skipped ones
\* included, and has counted as moved exactly the objects for which move_blob
\* returned True, never more than it processed.  The objects it listed were under
\* its prefix when the execution began and include every object still there; when
\* it returns it has counted all of them.
C19_CountsPerTask ==
    \A s \in Servers :
        /\ task[s].processed_count = task[s].i
        /\ 0 <= task[s].moved_count
        /\ task[s].moved_count <= task[s].processed_count
        /\ task[s].moved_count = Cardinality(MovedBy(s))
        /\ task[s].pc \notin {"queued", "raised"} =>
              /\ Elements(task[s].blobs) \subseteq UnderPrefix(s, at_start.source)
              /\ UnderPrefix(s, source_bucket) \subseteq Elements(task[s].blobs)
              /\ Cardinality(Elements(task[s].blobs)) = Len(task[s].blobs)
        /\ task[s].pc = "returned" => task[s].processed_count = Len(task[s].blobs)

\* A task has returned 1 moved of 3 processed: two of the objects it listed were
\* skipped.
C19_Witness ==
    \E s \in Servers :
        /\ task[s].pc = "returned"
        /\ Len(task[s].blobs) = 3
        /\ task[s].processed_count = 3
        /\ task[s].moved_count = 1
        /\ Cardinality(MovedBy(s)) = 1

====
